---- MODULE Spec2Model ----
(***************************************************************************)
(* A model of the AI toolkit: the action registry and dispatcher           *)
(* (src/src/executor.js, class ActionExecutor), the response parser and    *)
(* the operations extract, validate, summarize, decide and execute         *)
(* (src/src/index.js, class AIToolkit), and the telemetry client           *)
(* (src/src/telemetry.js, class TelemetryClient).                          *)
(*                                                                         *)
(* In the executor, JavaScript values are modelled as tokens (strings);    *)
(* Falsy says which of them the language treats as false in `!x` and       *)
(* `x || y`.  A Map is a sequence of its entries in insertion order, which *)
(* is the order the language iterates it in.  In the parser and the        *)
(* operations a value is a record of its type and its text.                *)
(***************************************************************************)
EXTENDS Integers, Sequences, FiniteSets, TLC

VARIABLES
    registry,   \* this.registry: the descriptors, in Map insertion order
    regRank,    \* ghost: name -> how many current registrations are not later
                \*        than its own (1 for the oldest), 0 if not registered
    listed,     \* the array a caller holds from its most recent list() call
    pending,    \* execute calls suspended at `await action.handler(...)`
    last,       \* the most recently completed call and what it observed
    aliased,    \* <<name, field>>: the object stored in that field of the
                \* name's descriptor is also referenced by a caller
    lastResult, \* this.lastResult of the toolkit (src/src/index.js)
    toolkit,    \* the fields of the toolkit its constructor sets
    telemetry   \* the telemetry client (src/src/telemetry.js): its fields, the
                \* batches its pending sends hold, and, as ghosts, the batches
                \* delivered and the number of events tracked

vars == <<registry, regRank, listed, pending, last, aliased, lastResult,
          toolkit, telemetry>>

\* the state of the executor and the state of the toolkit around it
executorVars == <<registry, regRank, listed, pending, aliased>>
toolkitVars == <<lastResult, toolkit, telemetry>>

----------------------------------------------------------------------------
(* Bounds of the model *)

MaxInFlight == 1        \* execute calls suspended at the same time
MaxListLen == 2         \* length up to which a caller grows a returned array
MaxConcurrent == 2      \* the same as MaxInFlight, where calls run side by side
MaxDepth == 2           \* nesting of the JSON values given to the parser
MaxPad == 1             \* whitespace pieces put before and after a text
MaxLen == 3             \* length of the texts made of every piece in turn
MaxEvents == 3          \* events tracked on top of those queued at the start
MaxSends == 2           \* sends of the telemetry client pending at a time

----------------------------------------------------------------------------
(* JavaScript values *)

Undefined == "undefined"
JsTrue == "true"
JsFalse == "false"
EmptyMapping == "{}"
EmptySequence == "[]"

\* `!v` is true exactly for these (the empty string is a falsy action name)
Falsy(v) == v \in {Undefined, "null", JsFalse, ""}

\* v || d
OrElse(v, d) == IF Falsy(v) THEN d ELSE v

\* the names actions are registered under, and one that never is
Names == {"a", ""}
NeverRegistered == "b"
Handlers == {"h1", "h2"}

\* the names registered where execute calls run side by side
ConcurrentNames == {"a", "c"}
AllNames == Names \cup ConcurrentNames
NotAFunction == "not-a-function"
IsFunction(v) == v \in Handlers

DefaultValidate == "() => true"
CustomValidate == "validate1"

\* the metadata argument of register; Undefined marks a field not supplied
NoMetadata ==
    [description |-> Undefined, parameters |-> Undefined, examples |-> Undefined,
     requiresConfirmation |-> Undefined, validate |-> Undefined]

Metadatas ==
    { NoMetadata,
      [NoMetadata EXCEPT !.description = "Test action"],
      [NoMetadata EXCEPT !.parameters = "{to:string}", !.examples = "[example1]",
                         !.requiresConfirmation = JsTrue, !.validate = CustomValidate] }

\* the same, and a description supplied as the empty string
DescribedMetadatas == Metadatas \cup {[NoMetadata EXCEPT !.description = ""]}

\* the fields of a descriptor that hold mutable objects
ObjectFields == {"parameters", "examples"}

\* an object after a caller has written to it
Mutated == [parameters |-> "{to:changed}", examples |-> "[changed]"]

----------------------------------------------------------------------------
(* new AIToolkit(options) and new TelemetryClient(options) *)

\* v && d
AndAlso(v, d) == IF Falsy(v) THEN v ELSE d

\* the options that matter to the fields modelled; token stands for
\* config.token || config.telemetryKey, telemetry for config.telemetry
DefaultOptions ==
    [token |-> Undefined, telemetry |-> JsTrue, withExecutor |-> JsFalse,
     logging |-> JsFalse, audit |-> JsFalse, debug |-> JsFalse]

ConstructorOptions ==
    [token : {Undefined, "aitk_token"}, telemetry : {JsTrue, JsFalse},
     withExecutor : {JsFalse, JsTrue}, logging : {JsFalse, JsTrue},
     audit : {JsFalse, JsTrue}, debug : {JsFalse, JsTrue}]

\* this.queue.length >= 50
FlushThreshold == 50

\* new TelemetryClient({token, enabled}).  An event is written as the number
\* it was tracked as; sending holds the `events` array of every flush whose
\* send is pending; delivered and tracked are ghosts.
TelemetryClient(token, enabled) ==
    [enabled |-> enabled # JsFalse /\ ~Falsy(token),
     premium |-> JsFalse,
     flushInterval |-> IF enabled # JsFalse /\ ~Falsy(token) THEN "set" ELSE "null",
     queue |-> << >>, sending |-> << >>, delivered |-> << >>, tracked |-> 0]

\* a plausible slip: holding a token is taken for the premium status
AIToolkitPremiumByToken(options) ==
    LET isPremium == IF Falsy(options.token) THEN Undefined ELSE JsTrue
    IN [telemetry |-> IF Falsy(options.token) THEN "null" ELSE "TelemetryClient",
        isPremium |-> isPremium,
        executor |-> IF Falsy(options.withExecutor) THEN "null" ELSE "ActionExecutor",
        config |-> options,
        logging |-> AndAlso(isPremium, options.logging),
        audit |-> AndAlso(isPremium, options.audit),
        debug |-> AndAlso(isPremium, options.debug)]

\* the constructor: this.isPremium is assigned only where a telemetry client
\* is made, from the client's premium field as it is at that moment
AIToolkit(options) ==
    LET isPremium == IF Falsy(options.token) THEN Undefined
                     ELSE TelemetryClient(options.token, options.telemetry).premium
    IN [telemetry |-> IF Falsy(options.token) THEN "null" ELSE "TelemetryClient",
        isPremium |-> isPremium,
        executor |-> IF Falsy(options.withExecutor) THEN "null" ELSE "ActionExecutor",
        config |-> options,
        logging |-> AndAlso(isPremium, options.logging),
        audit |-> AndAlso(isPremium, options.audit),
        debug |-> AndAlso(isPremium, options.debug)]

\* the toolkit and the client it holds (where this.telemetry is null the
\* variable holds a client nothing refers to)
Constructed(options) ==
    /\ toolkit = AIToolkit(options)
    /\ telemetry = TelemetryClient(options.token, options.telemetry)
    /\ lastResult = [type |-> "object", v |-> <<"null">>]

----------------------------------------------------------------------------
(* The Map this.registry *)

MapHas(reg, name) == \E i \in 1..Len(reg) : reg[i].name = name

\* what Map.prototype.get answers for a key that is not there: undefined,
\* written as a descriptor without any field set
NoEntry ==
    [name |-> Undefined, handler |-> Undefined, description |-> Undefined,
     parameters |-> Undefined, examples |-> Undefined,
     requiresConfirmation |-> Undefined, validate |-> Undefined]

MapGet(reg, name) ==
    IF MapHas(reg, name)
    THEN reg[CHOOSE i \in 1..Len(reg) : reg[i].name = name]
    ELSE NoEntry

\* Map.prototype.set: a new key goes last, an existing key keeps its place
MapSet(reg, name, d) ==
    IF MapHas(reg, name)
    THEN [i \in 1..Len(reg) |-> IF reg[i].name = name THEN d ELSE reg[i]]
    ELSE Append(reg, d)

MapDelete(reg, name) == SelectSeq(reg, LAMBDA d : d.name # name)

----------------------------------------------------------------------------
(* register, unregister, clear, has, size, list *)

\* a plausible slip: the default description leaves out the name
MakeDescriptorUnnamed(name, handler, metadata) ==
    [name |-> name,
     handler |-> handler,
     description |-> OrElse(metadata.description, "Execute "),
     parameters |-> OrElse(metadata.parameters, EmptyMapping),
     examples |-> OrElse(metadata.examples, EmptySequence),
     requiresConfirmation |-> OrElse(metadata.requiresConfirmation, JsFalse),
     validate |-> OrElse(metadata.validate, DefaultValidate)]

\* `metadata.parameters || {}` evaluates to the caller's own object when it
\* is truthy: these fields of the new descriptor are shared with the caller
KeptByReference(metadata) == {f \in ObjectFields : ~Falsy(metadata[f])}

MakeDescriptor(name, handler, metadata) ==
    [name |-> name,
     handler |-> handler,
     description |-> OrElse(metadata.description, "Execute " \o name),
     parameters |-> OrElse(metadata.parameters, EmptyMapping),
     examples |-> OrElse(metadata.examples, EmptySequence),
     requiresConfirmation |-> OrElse(metadata.requiresConfirmation, JsFalse),
     validate |-> OrElse(metadata.validate, DefaultValidate)]

\* a plausible slip: the entry is stored before the duplicate check runs
registerStoresFirst(reg, name, handler, metadata) ==
    IF ~IsFunction(handler)
    THEN [threw |-> "InvalidHandler", registry |-> reg, returned |-> Undefined]
    ELSE [threw |-> IF MapHas(reg, name) THEN "DuplicateAction" ELSE "none",
          registry |-> MapSet(reg, name, MakeDescriptor(name, handler, metadata)),
          returned |-> IF MapHas(reg, name) THEN Undefined ELSE "this"]

\* register(name, handler, metadata): what it throws, the Map it leaves and
\* what it returns ("this" is the executor itself)
register(reg, name, handler, metadata) ==
    IF ~IsFunction(handler)
    THEN [threw |-> "InvalidHandler", registry |-> reg, returned |-> Undefined]
    ELSE IF MapHas(reg, name)
    THEN [threw |-> "DuplicateAction", registry |-> reg, returned |-> Undefined]
    ELSE [threw |-> "none",
          registry |-> MapSet(reg, name, MakeDescriptor(name, handler, metadata)),
          returned |-> "this"]

\* a plausible slip: unregister answers true whether or not the key was there
unregisterAlwaysTrue(reg, name) ==
    [returned |-> TRUE, registry |-> MapDelete(reg, name)]

\* unregister(name): Map.prototype.delete answers whether the key was there
unregister(reg, name) ==
    [returned |-> MapHas(reg, name), registry |-> MapDelete(reg, name)]

clear(reg) == << >>

has(name) == MapHas(registry, name)

size == Len(registry)

\* getAvailableActions(): a new array of new records, in iteration order;
\* the parameters and examples of a record are config.parameters and
\* config.examples themselves, the objects the descriptor holds
getAvailableActions(reg) ==
    [items |-> [i \in 1..Len(reg) |->
                  [action |-> reg[i].name, description |-> reg[i].description,
                   parameters |-> reg[i].parameters, examples |-> reg[i].examples]],
     sharedWithRegistry |-> ObjectFields]

\* a plausible slip: unshift instead of push, the newest entry comes first
listNewestFirst(reg) ==
    [items |-> [i \in 1..Len(reg) |->
                  [name |-> reg[Len(reg) + 1 - i].name,
                   description |-> reg[Len(reg) + 1 - i].description]],
     sharedWithRegistry |-> FALSE]

\* list(): a new array of new {name, description} objects, in iteration order
list(reg) ==
    [items |-> [i \in 1..Len(reg) |->
                  [name |-> reg[i].name, description |-> reg[i].description]],
     sharedWithRegistry |-> FALSE]

----------------------------------------------------------------------------
(* Actions on the registry *)

NoCall == [op |-> "none"]

\* ghost: how many names are registered at present
Registered == Cardinality({n \in AllNames : regRank[n] > 0})

Init ==
    /\ registry = << >>
    /\ regRank = [n \in AllNames |-> 0]
    /\ listed = [items |-> << >>, sharedWithRegistry |-> FALSE, held |-> FALSE]
    /\ pending = << >>
    /\ last = NoCall
    /\ aliased = {}
    /\ Constructed(DefaultOptions)

Register(name, handler, metadata) ==
    LET r == register(registry, name, handler, metadata) IN
    /\ registry' = r.registry
    /\ regRank' = IF r.threw = "none"
                  THEN [regRank EXCEPT ![name] = Registered + 1]
                  ELSE regRank
    /\ last' = [op |-> "register", name |-> name, threw |-> r.threw,
                 returned |-> r.returned]
    /\ aliased' = IF r.threw = "none"
                  THEN aliased \cup {<<name, f>> : f \in KeptByReference(metadata)}
                  ELSE aliased
    /\ UNCHANGED <<listed, pending>>
    /\ UNCHANGED toolkitVars

Unregister(name) ==
    LET r == unregister(registry, name) IN
    /\ registry' = r.registry
    /\ regRank' = [n \in AllNames |->
                     IF n = name THEN 0
                     ELSE IF regRank[name] > 0 /\ regRank[n] > regRank[name]
                     THEN regRank[n] - 1
                     ELSE regRank[n]]
    /\ last' = [op |-> "unregister", name |-> name, returned |-> r.returned]
    /\ aliased' = {a \in aliased : a[1] # name}
    /\ UNCHANGED <<listed, pending>>
    /\ UNCHANGED toolkitVars

Clear ==
    /\ registry' = clear(registry)
    /\ regRank' = [n \in AllNames |-> 0]
    /\ last' = [op |-> "clear"]
    /\ aliased' = {}
    /\ UNCHANGED <<listed, pending>>
    /\ UNCHANGED toolkitVars

List ==
    LET r == list(registry) IN
    /\ listed' = [items |-> r.items, sharedWithRegistry |-> r.sharedWithRegistry,
                  held |-> TRUE]
    /\ last' = [op |-> "list"]
    /\ UNCHANGED <<registry, regRank, pending, aliased>>
    /\ UNCHANGED toolkitVars

\* what a caller can do to an array it holds
Reverse(s) == [i \in 1..Len(s) |-> s[Len(s) + 1 - i]]

Mutations(s) ==
    {m \in {"push", "shift", "reverse"} :
        /\ m = "push" => Len(s) < MaxListLen
        /\ m = "shift" => Len(s) > 0
        /\ m = "reverse" => Len(s) > 1}

Mutate(s, m) ==
    CASE m = "push" -> Append(s, [name |-> "x", description |-> "added by the caller"])
      [] m = "shift" -> Tail(s)
      [] m = "reverse" -> Reverse(s)

\* the descriptors an array of {name, ...} items names, in the array's order
Following(reg, items) ==
    LET known == SelectSeq(items, LAMBDA it : MapHas(reg, it.name))
    IN [i \in 1..Len(known) |-> MapGet(reg, known[i].name)]

\* The caller mutates the array list() returned.  Nothing of the registry is
\* reachable from that array unless list() handed out shared storage.
MutateListed(m) ==
    /\ listed.held
    /\ m \in Mutations(listed.items)
    /\ listed' = [listed EXCEPT !.items = Mutate(listed.items, m)]
    /\ registry' = IF listed.sharedWithRegistry
                   THEN Following(registry, Mutate(listed.items, m))
                   ELSE registry
    /\ last' = [op |-> "mutateListed", how |-> m]
    /\ UNCHANGED <<regRank, pending, aliased>>
    /\ UNCHANGED toolkitVars

GetAvailableActions ==
    LET r == getAvailableActions(registry) IN
    /\ last' = [op |-> "getAvailableActions", returned |-> r.items]
    /\ aliased' = aliased \cup
                    {<<r.items[i].action, f>> : i \in 1..Len(r.items),
                                                f \in r.sharedWithRegistry}
    /\ UNCHANGED <<registry, regRank, listed, pending>>
    /\ UNCHANGED toolkitVars

\* The caller writes to an object it holds: one it passed to register in the
\* metadata, or one it found in a record getAvailableActions returned.  The
\* descriptor holds the same object.
MutateAliased(name, field) ==
    /\ <<name, field>> \in aliased
    /\ MapGet(registry, name)[field] # Mutated[field]
    /\ registry' = MapSet(registry, name,
                          [MapGet(registry, name) EXCEPT ![field] = Mutated[field]])
    /\ last' = [op |-> "mutateAliased", name |-> name, field |-> field]
    /\ UNCHANGED <<regRank, listed, pending, aliased>>
    /\ UNCHANGED toolkitVars

----------------------------------------------------------------------------
(* execute(decision) *)

NoDecision == [present |-> FALSE, action |-> Undefined, parameters |-> Undefined]

\* action Undefined: the decision has no action field
Decisions ==
    {NoDecision} \cup
    [present : {TRUE}, action : Names \cup {NeverRegistered, Undefined},
     parameters : {Undefined, "{param1:value1}"}]

\* what a validator or a handler can throw or reject with
ErrorFailed == "Error('Action failed')"
Thrown == {ErrorFailed, "null"}

\* reading a property of null or undefined throws a TypeError
HasNoProperties(v) == v \in {"null", Undefined}

\* v.message
MessageOf(v) == IF v = ErrorFailed THEN "Action failed" ELSE Undefined

\* the ways a call of the validator stored as `validate` can end
ValidatorResults(validate) ==
    IF validate = DefaultValidate
    THEN {[how |-> "returned", value |-> JsTrue]}
    ELSE {[how |-> "returned", value |-> JsTrue],
          [how |-> "returned", value |-> JsFalse],
          [how |-> "threw", value |-> ErrorFailed]}

\* the ways a call of a handler can end: at once by throwing, or later with
\* its result (or the promise it returned) fulfilled or rejected
HandlerThrows == [how : {"threw"}, value : Thrown]
HandlerSettles ==
    [how : {"returned"}, value : {"result1", Undefined}] \cup
    [how : {"rejected"}, value : Thrown]

NotCalled == [how |-> "not called", value |-> Undefined]

Called(fn, callee, arg) == [fn |-> fn, callee |-> callee, arg |-> arg]

Rejected(error) == [settled |-> "rejected", error |-> error]
Resolved(value) == [settled |-> "resolved", value |-> value]

\* a plausible slip: only the absent decision is refused
decisionAbsent(decision) == ~decision.present

\* !decision || !decision.action
decisionInvalid(decision) == ~decision.present \/ Falsy(decision.action)

\* a plausible slip: an unknown name falls back to the first registered action
lookupOrFirst(reg, decision) ==
    IF MapHas(reg, decision.action) THEN MapGet(reg, decision.action)
    ELSE IF Len(reg) > 0 THEN reg[1] ELSE NoEntry

\* this.registry.get(decision.action)
lookup(reg, decision) == MapGet(reg, decision.action)

\* a plausible slip: the parameters are passed on as they came
parametersAsGiven(decision) == decision.parameters

\* decision.parameters || {}
parametersOf(decision) == OrElse(decision.parameters, EmptyMapping)

\* a plausible slip: the validator's answer is not looked at
validatorIgnored(vres) == FALSE

\* !action.validate(...), for a validator call that returned
validatorRefuses(vres) == Falsy(vres.value)

\* a plausible slip: an action that requires confirmation is not executed
executeUntilAwaitGated(reg, decision, vres) ==
    IF decisionInvalid(decision)
    THEN [at |-> "threw", error |-> "InvalidDecision", trace |-> << >>]
    ELSE LET action == lookup(reg, decision) IN
    IF action = NoEntry
    THEN [at |-> "threw", error |-> "UnknownAction", trace |-> << >>]
    ELSE LET t1 == << Called("validate", action.validate, parametersOf(decision)) >>
         IN IF vres.how = "threw"
            THEN [at |-> "threw", error |-> vres.value, trace |-> t1]
            ELSE IF validatorRefuses(vres)
            THEN [at |-> "threw", error |-> "InvalidParameters", trace |-> t1]
            ELSE IF ~Falsy(action.requiresConfirmation)
            THEN [at |-> "threw", error |-> "ConfirmationRequired",
                  trace |-> Append(t1, Called("console.warn", "console",
                                              decision.action))]
            ELSE [at |-> "await", error |-> Undefined,
                  trace |-> Append(t1, Called("handler", action.handler,
                                              parametersOf(decision)))]

\* execute up to `await action.handler(...)`: either it has thrown (the promise
\* of execute is rejected with error) or the handler has been called.  vres is
\* how the validator's call ends if it is reached.  trace lists the calls made.
executeUntilAwait(reg, decision, vres) ==
    IF decisionInvalid(decision)
    THEN [at |-> "threw", error |-> "InvalidDecision", trace |-> << >>]
    ELSE LET action == lookup(reg, decision) IN
    IF action = NoEntry
    THEN [at |-> "threw", error |-> "UnknownAction", trace |-> << >>]
    ELSE LET t1 == << Called("validate", action.validate, parametersOf(decision)) >>
             t2 == IF Falsy(action.requiresConfirmation) THEN t1
                   ELSE Append(t1, Called("console.warn", "console", decision.action))
         IN IF vres.how = "threw"
            THEN [at |-> "threw", error |-> vres.value, trace |-> t1]
            ELSE IF validatorRefuses(vres)
            THEN [at |-> "threw", error |-> "InvalidParameters", trace |-> t1]
            ELSE [at |-> "await", error |-> Undefined,
                  trace |-> Append(t2, Called("handler", action.handler,
                                              parametersOf(decision)))]

\* a plausible slip: the envelope reports success whatever the handler did
executeAlwaysSucceeds(decision, hres) ==
    Resolved([success |-> TRUE, action |-> decision.action, result |-> hres.value])

\* execute from the handler's outcome on: the try block's return, or the catch
\* block, where error.message is read
executeAfterAwait(decision, hres) ==
    IF hres.how = "returned"
    THEN Resolved([success |-> TRUE, action |-> decision.action,
                   result |-> hres.value])
    ELSE IF HasNoProperties(hres.value)
    THEN Rejected("TypeError")
    ELSE Resolved([success |-> FALSE, action |-> decision.action,
                   error |-> MessageOf(hres.value)])

\* ghost: the descriptor registered under the decision's action when execute
\* is called, NoEntry if there is none
EntryFor(reg, decision) ==
    IF decision.present THEN MapGet(reg, decision.action) ELSE NoEntry

\* how the validator's call ends in an execute that made the calls of trace
ValidatorResultsFor(trace) ==
    IF trace = << >> THEN {NotCalled} ELSE ValidatorResults(trace[1].callee)

Completed(call, hres, outcome) ==
    [op |-> "execute", decision |-> call.decision, entry |-> call.entry,
     trace |-> call.trace, validatorResult |-> call.validatorResult,
     handlerResult |-> hres, outcome |-> outcome]

\* execute is called and runs until it throws or suspends at the await; a
\* handler that throws synchronously is caught in the same step; at most
\* `limit` calls are suspended at a time
ExecuteStartUpTo(decision, limit) ==
    /\ \E vres \in ValidatorResultsFor(
                      executeUntilAwait(registry, decision, NotCalled).trace) :
        LET s == executeUntilAwait(registry, decision, vres)
            call == [decision |-> decision, entry |-> EntryFor(registry, decision),
                     trace |-> s.trace, validatorResult |-> vres]
        IN \/ /\ s.at = "threw"
              /\ last' = Completed(call, NotCalled, Rejected(s.error))
              /\ UNCHANGED pending
           \/ /\ s.at = "await"
              /\ \E hres \in HandlerThrows :
                    last' = Completed(call, hres, executeAfterAwait(decision, hres))
              /\ UNCHANGED pending
           \/ /\ s.at = "await"
              /\ Len(pending) < limit
              /\ pending' = Append(pending, call)
              /\ UNCHANGED last
    /\ UNCHANGED <<registry, regRank, listed, aliased>>
    /\ UNCHANGED toolkitVars

ExecuteStart(decision) == ExecuteStartUpTo(decision, MaxInFlight)

RemoveAt(s, i) == [j \in 1..(Len(s) - 1) |-> IF j < i THEN s[j] ELSE s[j + 1]]

\* the handler's result settles and the suspended execute runs to its end
ExecuteSettle(i, hres) ==
    /\ i \in 1..Len(pending)
    /\ last' = Completed(pending[i], hres,
                         executeAfterAwait(pending[i].decision, hres))
    /\ pending' = RemoveAt(pending, i)
    /\ UNCHANGED <<registry, regRank, listed, aliased>>
    /\ UNCHANGED toolkitVars

----------------------------------------------------------------------------
(* Texts and JSON (src/src/index.js, what parseJSON works on) *)

\* A text is a sequence of pieces.  A piece is one character (a bracket, a
\* quote, a colon, a comma, a digit, a blank, a line break), the fence marker
\* of three backticks, or a word of letters; the text is their concatenation.
\* (The fence marker is written as a word of its own: a backtick cannot be
\* written in a string here.)
Fence == "<fence>"
Quote == "\""
Digits == {"1", "5"}
Whitespace == {" ", "\n"}
JsonLiterals == {"null", "true", "false"}
JsonTags == {"json", "JSON"}

\* the piece at index i, or a piece no text has when i is past the end
At(s, i) == IF i \in 1..Len(s) THEN s[i] ELSE "<end>"

RECURSIVE SkipWhitespace(_, _)
SkipWhitespace(s, i) ==
    IF At(s, i) \in Whitespace THEN SkipWhitespace(s, i + 1) ELSE i

\* The JSON grammar.  Each of these takes the index a construct starts at and
\* answers the index after its end, or 0 when the text has no such construct
\* there.  A string has no escapes and no raw line break in it.
RECURSIVE StringBodyEnd(_, _)
StringBodyEnd(s, i) ==
    IF i > Len(s) \/ s[i] = "\n" THEN 0
    ELSE IF s[i] = Quote THEN i + 1
    ELSE StringBodyEnd(s, i + 1)

StringEnd(s, i) == IF At(s, i) = Quote THEN StringBodyEnd(s, i + 1) ELSE 0

RECURSIVE NumberEnd(_, _)
NumberEnd(s, i) == IF At(s, i) \in Digits THEN NumberEnd(s, i + 1) ELSE i

RECURSIVE ValueEnd(_, _)
RECURSIVE MembersEnd(_, _)
RECURSIVE ElementsEnd(_, _)

ValueEnd(s, i) ==
    LET c == At(s, i)
        j == SkipWhitespace(s, i + 1)
    IN CASE c = "{" -> IF At(s, j) = "}" THEN j + 1 ELSE MembersEnd(s, j)
         [] c = "[" -> IF At(s, j) = "]" THEN j + 1 ELSE ElementsEnd(s, j)
         [] c = Quote -> StringEnd(s, i)
         [] c \in Digits -> NumberEnd(s, i)
         [] c \in JsonLiterals -> i + 1
         [] OTHER -> 0

\* "key": value, then a comma and more members, or the closing brace
MembersEnd(s, i) ==
    LET k == StringEnd(s, i)
        c == IF k = 0 THEN 0 ELSE SkipWhitespace(s, k)
        v == IF c # 0 /\ At(s, c) = ":"
             THEN ValueEnd(s, SkipWhitespace(s, c + 1))
             ELSE 0
        e == IF v = 0 THEN 0 ELSE SkipWhitespace(s, v)
    IN IF e = 0 THEN 0
       ELSE IF At(s, e) = "," THEN MembersEnd(s, SkipWhitespace(s, e + 1))
       ELSE IF At(s, e) = "}" THEN e + 1
       ELSE 0

\* value, then a comma and more elements, or the closing bracket
ElementsEnd(s, i) ==
    LET v == ValueEnd(s, i)
        e == IF v = 0 THEN 0 ELSE SkipWhitespace(s, v)
    IN IF e = 0 THEN 0
       ELSE IF At(s, e) = "," THEN ElementsEnd(s, SkipWhitespace(s, e + 1))
       ELSE IF At(s, e) = "]" THEN e + 1
       ELSE 0

\* the text is one JSON value with nothing but whitespace around it
IsJson(s) ==
    LET e == ValueEnd(s, SkipWhitespace(s, 1))
    IN e # 0 /\ SkipWhitespace(s, e) = Len(s) + 1

\* a JSON text without the whitespace between its tokens; two JSON texts
\* stand for the same value exactly when they are the same in this form
\* (no object here has a key twice)
RECURSIVE Canonical(_, _, _)
Canonical(s, i, inString) ==
    IF i > Len(s) THEN << >>
    ELSE IF s[i] = Quote THEN <<s[i]>> \o Canonical(s, i + 1, ~inString)
    ELSE IF ~inString /\ s[i] \in Whitespace THEN Canonical(s, i + 1, inString)
    ELSE <<s[i]>> \o Canonical(s, i + 1, inString)

\* A JavaScript value: what typeof answers for it and, for a string, its
\* text, for every other value, its JSON text in canonical form
JsUndefined == [type |-> "undefined", v |-> << >>]
JsString(s) == [type |-> "string", v |-> s]

FromJson(j) ==
    LET c == At(j, 1) IN
    CASE c = Quote -> JsString(SubSeq(j, 2, Len(j) - 1))
      [] c \in Digits -> [type |-> "number", v |-> j]
      [] c \in {"true", "false"} -> [type |-> "boolean", v |-> j]
      [] OTHER -> [type |-> "object", v |-> j]

\* JSON.parse(text): the value, or a SyntaxError thrown
JSONparse(s) ==
    IF IsJson(s)
    THEN [threw |-> FALSE, value |-> FromJson(Canonical(s, 1, FALSE))]
    ELSE [threw |-> TRUE, value |-> JsUndefined]

----------------------------------------------------------------------------
(* parseJSON(response) *)

\* .replace(/```json\s*/gi, '')
RECURSIVE ReplaceTaggedFences(_, _)
ReplaceTaggedFences(s, i) ==
    IF i > Len(s) THEN << >>
    ELSE IF s[i] = Fence /\ At(s, i + 1) \in JsonTags
    THEN ReplaceTaggedFences(s, SkipWhitespace(s, i + 2))
    ELSE <<s[i]>> \o ReplaceTaggedFences(s, i + 1)

\* .replace(/```\s*/g, '')
RECURSIVE ReplaceFences(_, _)
ReplaceFences(s, i) ==
    IF i > Len(s) THEN << >>
    ELSE IF s[i] = Fence THEN ReplaceFences(s, SkipWhitespace(s, i + 1))
    ELSE <<s[i]>> \o ReplaceFences(s, i + 1)

\* .trim()
Trim(s) ==
    LET kept == {i \in 1..Len(s) : s[i] \notin Whitespace} IN
    IF kept = {} THEN << >>
    ELSE SubSeq(s, CHOOSE i \in kept : \A j \in kept : i <= j,
                   CHOOSE i \in kept : \A j \in kept : i >= j)

Cleaned(s) == Trim(ReplaceFences(ReplaceTaggedFences(s, 1), 1))

\* cleaned.match(/^\{[\s\S]*\}$/) and cleaned.match(/^\[[\s\S]*\]$/)
Spans(s, open, close) == Len(s) >= 2 /\ s[1] = open /\ s[Len(s)] = close

\* cleaned.indexOf(c), counted from 1; 0 when c does not occur
indexOf(s, c) ==
    IF \E i \in 1..Len(s) : s[i] = c
    THEN CHOOSE i \in 1..Len(s) : s[i] = c /\ \A j \in 1..(i - 1) : s[j] # c
    ELSE 0

\* the for loop: the index at which depth is back at zero, 0 if the loop
\* runs to the end of the text
RECURSIVE depthZeroAt(_, _, _, _, _)
depthZeroAt(s, i, depth, open, close) ==
    IF i > Len(s) THEN 0
    ELSE LET d == IF s[i] = open THEN depth + 1
                  ELSE IF s[i] = close THEN depth - 1
                  ELSE depth
         IN IF d = 0 THEN i ELSE depthZeroAt(s, i + 1, d, open, close)

\* a plausible slip: the response is parsed as it came, fences and all
parseTextUncleaned(s) == JSONparse(s)

\* a plausible slip: a scan that runs to the end of the text gives up
\* instead of falling through to JSON.parse(cleaned)
parseTextNoFallThrough(s) ==
    LET cleaned == Cleaned(s)
        firstObject == indexOf(cleaned, "{")
        firstArray == indexOf(cleaned, "[")
        isArray == firstArray # 0 /\ (firstObject = 0 \/ firstArray < firstObject)
        start == IF isArray THEN firstArray ELSE firstObject
        end == IF isArray THEN depthZeroAt(cleaned, start, 0, "[", "]")
               ELSE depthZeroAt(cleaned, start, 0, "{", "}")
    IN IF Spans(cleaned, "{", "}") \/ Spans(cleaned, "[", "]") THEN JSONparse(cleaned)
       ELSE IF firstObject = 0 /\ firstArray = 0 THEN JSONparse(cleaned)
       ELSE IF end # 0 THEN JSONparse(SubSeq(cleaned, start, end))
       ELSE [threw |-> TRUE, value |-> JsUndefined]

\* the try block on a string
parseText(s) ==
    LET cleaned == Cleaned(s)
        firstObject == indexOf(cleaned, "{")
        firstArray == indexOf(cleaned, "[")
        isArray == firstArray # 0 /\ (firstObject = 0 \/ firstArray < firstObject)
        start == IF isArray THEN firstArray ELSE firstObject
        end == IF isArray THEN depthZeroAt(cleaned, start, 0, "[", "]")
               ELSE depthZeroAt(cleaned, start, 0, "{", "}")
    IN IF Spans(cleaned, "{", "}") \/ Spans(cleaned, "[", "]") THEN JSONparse(cleaned)
       ELSE IF firstObject = 0 /\ firstArray = 0 THEN JSONparse(cleaned)
       ELSE IF end # 0 THEN JSONparse(SubSeq(cleaned, start, end))
       ELSE JSONparse(cleaned)

\* the try block: an object (null included) is returned as it is; a value
\* that is neither an object nor a string has no replace method, and the
\* call of it throws a TypeError
parseJSONTry(response) ==
    IF response.type = "object" THEN [threw |-> FALSE, value |-> response]
    ELSE IF response.type # "string" THEN [threw |-> TRUE, value |-> JsUndefined]
    ELSE parseText(response.v)

\* { error: 'Failed to parse response' }
FailureSentinel ==
    [type |-> "object",
     v |-> <<"{", Quote, "error", Quote, ":",
             Quote, "Failed to parse response", Quote, "}">>]

\* a plausible slip: no catch block around the parsing
parseJSONUncaught(response) == parseJSONTry(response)

\* parseJSON(response): whatever the try block throws is caught and the
\* sentinel returned
parseJSON(response) ==
    IF parseJSONTry(response).threw
    THEN [threw |-> FALSE, value |-> FailureSentinel]
    ELSE parseJSONTry(response)

----------------------------------------------------------------------------
(* The responses parseJSON is given *)

Str(word) == <<Quote, word, Quote>>

\* the JSON texts of the values nested up to depth d, without whitespace
RECURSIVE JsonTexts(_)
JsonTexts(d) ==
    IF d = 0 THEN {<<"5">>, Str("x"), Str(Fence)}
    ELSE LET inner == JsonTexts(d - 1) IN
         inner \cup {<<"{", "}">>, <<"[", "]">>}
               \cup {<<"[">> \o v \o <<"]">> : v \in inner}
               \cup {<<"[">> \o v \o <<",", "1", "]">> : v \in inner}
               \cup {<<"{">> \o Str("x") \o <<":">> \o v \o <<"}">> : v \in inner}

\* the texts of the JSON objects and arrays
ObjectAndArrayTexts == {v \in JsonTexts(MaxDepth) : v[1] \in {"{", "["}}

HasFence(s) == \E i \in 1..Len(s) : s[i] = Fence

\* the same JSON text laid out with blanks and line breaks between tokens
RECURSIVE Spaced(_, _, _)
Spaced(s, i, inString) ==
    IF i > Len(s) THEN << >>
    ELSE IF s[i] = Quote THEN <<s[i]>> \o Spaced(s, i + 1, ~inString)
    ELSE IF ~inString /\ s[i] \in {",", ":", "{", "["}
    THEN <<s[i], " ">> \o Spaced(s, i + 1, inString)
    ELSE IF ~inString /\ s[i] \in {"}", "]"}
    THEN <<"\n", s[i]>> \o Spaced(s, i + 1, inString)
    ELSE <<s[i]>> \o Spaced(s, i + 1, inString)

Layouts(v) == {v, Spaced(v, 1, FALSE)}

Pad(c, n) == [i \in 1..n |-> c]

\* a text as it is or inside a code fence, with or without the json tag,
\* and whitespace around it
Fenced(s) ==
    {pre \o s \o post :
        pre \in {<< >>, <<Fence, "\n">>, <<Fence, "json", "\n">>,
                 <<Fence, "JSON", " ">>},
        post \in {<< >>, <<"\n", Fence>>}}

FencedAndPadded(s) ==
    {Pad(" ", m) \o f \o Pad("\n", n) : f \in Fenced(s), m \in 0..MaxPad, n \in 0..MaxPad}

\* a text with commentary before it, after it or both
InProse(s) ==
    {pre \o s \o post :
        pre \in {<< >>, <<"Sure", ":", " ">>, <<"Sure", ":", "\n", Fence, "json", "\n">>},
        post \in {<< >>, <<" ", "Hope", " ", "that", " ", "helps">>, <<"\n", Fence, "\n", "Hope">>}}

\* two JSON texts with commentary between them
TwoInProse(s) ==
    {s \o <<" ", "and", " ">> \o v : v \in {<<"{">> \o Str("x") \o <<":", "1", "}">>,
                                            <<"[", "1", "]">>}}

\* every text of at most n pieces out of these
Pieces == {"{", "}", "[", "]", Quote, ":", ",", "1", "x", " ", Fence, "json"}

RECURSIVE TextsUpTo(_)
TextsUpTo(n) ==
    IF n = 0 THEN {<< >>}
    ELSE TextsUpTo(n - 1) \cup
         {Append(s, c) : s \in {u \in TextsUpTo(n - 1) : Len(u) = n - 1}, c \in Pieces}

\* texts no JSON value is to be had from, and JSON that is no object or array
OtherTexts ==
    { <<"not", " ", "json", " ", "at", " ", "all", " ", "{">>,
      <<"{">> \o Str("x") \o <<":", "5">>,
      <<"null">>, <<"true">>, <<"1", "5">>, Str("x"),
      <<"[", "1", "]", " ", "x", " ", "{">> \o Str("x") \o <<":", "5", "}">>,
      <<"x", " ", "{">> \o Str("x") \o <<":">> \o Str("}") \o <<"}">> }

\* a response text, the JSON text it was made of and the way it was made
Made(texts, v, form) == {[text |-> w, of |-> v, form |-> form] : w \in texts}

ResponseTexts ==
    UNION {UNION {Made(FencedAndPadded(l), v, "fenced")
                  \cup Made(InProse(l), v, "in prose")
                  \cup Made(TwoInProse(l), v, "two in prose") : l \in Layouts(v)} :
              v \in ObjectAndArrayTexts}
    \cup Made(TextsUpTo(MaxLen) \cup OtherTexts, << >>, "other")

\* what a caller can pass that is not a string
NotStrings ==
    { JsUndefined,
      [type |-> "number", v |-> <<"5">>],
      [type |-> "boolean", v |-> <<"true">>],
      [type |-> "object", v |-> <<"null">>],
      [type |-> "object", v |-> <<"{">> \o Str("x") \o <<":", "5", "}">>],
      [type |-> "object", v |-> <<"[", "1", "]">>] }

Responses ==
    {[response |-> JsString(r.text), of |-> r.of, form |-> r.form] : r \in ResponseTexts}
    \cup {[response |-> r, of |-> << >>, form |-> "no string"] : r \in NotStrings}

\* a response is at hand and nothing has been called yet
InitParse ==
    /\ registry = << >>
    /\ regRank = [n \in AllNames |-> 0]
    /\ listed = [items |-> << >>, sharedWithRegistry |-> FALSE, held |-> FALSE]
    /\ pending = << >>
    /\ aliased = {}
    /\ Constructed(DefaultOptions)
    /\ last \in {[op |-> "none", response |-> r.response, of |-> r.of,
                    form |-> r.form] : r \in Responses}

\* of and form are ghosts: how the response came about
Parsed(response, of, form) ==
    [op |-> "parseJSON", response |-> response, of |-> of, form |-> form,
     returned |-> parseJSON(response)]

\* parseJSON is called on the response
Parse ==
    /\ last.op = "none"
    /\ last' = Parsed(last.response, last.of, last.form)
    /\ UNCHANGED <<registry, regRank, listed, pending, aliased>>
    /\ UNCHANGED toolkitVars

\* parseJSON is called on what parseJSON returned
Reparse ==
    /\ last.op = "parseJSON"
    /\ ~last.returned.threw
    /\ last' = Parsed(last.returned.value, << >>, "returned")
    /\ UNCHANGED <<registry, regRank, listed, pending, aliased>>
    /\ UNCHANGED toolkitVars

----------------------------------------------------------------------------
(* track, flush, send, destroy (src/src/telemetry.js) *)

\* flush() up to `await this.send(events)`: the queue is copied into events
\* and emptied, and the send is started
flushUntilAwait(client) ==
    IF ~client.enabled \/ client.queue = << >> THEN client
    ELSE [client EXCEPT !.sending = Append(@, client.queue), !.queue = << >>]

\* track(event, data): the event is pushed, and the queue flushed once it
\* holds FlushThreshold events
track(client) ==
    IF ~client.enabled THEN client
    ELSE LET pushed == [client EXCEPT !.queue = Append(@, client.tracked + 1),
                                      !.tracked = @ + 1]
         IN IF Len(pushed.queue) >= FlushThreshold
            THEN flushUntilAwait(pushed)
            ELSE pushed

\* response.tier in the body of a 2xx response; Undefined where the body
\* has none or is no JSON
Tiers == {Undefined, "free", "pro"}

\* the send of sending[i] is answered with 2xx: premium is set from the
\* tier, the promise resolves and flush returns
sendResolved(client, i, tier) ==
    [client EXCEPT !.sending = RemoveAt(@, i),
                   !.delivered = Append(@, client.sending[i]),
                   !.premium = IF Falsy(tier) THEN @
                               ELSE IF tier # "free" THEN JsTrue ELSE JsFalse]

\* a plausible slip: the events of a failed send are not put back
sendRejectedDropsEvents(client, i) ==
    [client EXCEPT !.sending = RemoveAt(@, i)]

\* the send of sending[i] fails (a status outside 2xx, a request error):
\* the catch block of flush does this.queue.unshift(...events)
sendRejected(client, i) ==
    [client EXCEPT !.sending = RemoveAt(@, i),
                   !.queue = client.sending[i] \o @]

\* destroy(): the timer is cleared and flush() called, not awaited
destroy(client) ==
    flushUntilAwait([client EXCEPT !.flushInterval = "null"])

\* ghost: the number of events queued when the model starts
QueuedAtStart(client) ==
    IF client.tracked >= FlushThreshold - 1 THEN FlushThreshold - 1 ELSE 0

Track ==
    /\ telemetry.tracked - QueuedAtStart(telemetry) < MaxEvents
    /\ Len(track(telemetry).sending) <= MaxSends
    /\ telemetry' = track(telemetry)
    /\ last' = [op |-> "track", event |-> telemetry.tracked + 1]
    /\ UNCHANGED <<executorVars, lastResult, toolkit>>

\* flush() called by the timer, by the beforeExit handler or by a caller
Flush(by) ==
    /\ by = "timer" => telemetry.flushInterval = "set"
    /\ Len(telemetry.sending) < MaxSends
    /\ telemetry' = flushUntilAwait(telemetry)
    /\ last' = [op |-> "flush", by |-> by]
    /\ UNCHANGED <<executorVars, lastResult, toolkit>>

Destroy ==
    /\ Len(telemetry.sending) < MaxSends
    /\ telemetry' = destroy(telemetry)
    /\ last' = [op |-> "destroy"]
    /\ UNCHANGED <<executorVars, lastResult, toolkit>>

SendResolves(i, tier) ==
    /\ i \in 1..Len(telemetry.sending)
    /\ telemetry' = sendResolved(telemetry, i, tier)
    /\ last' = [op |-> "send resolved", events |-> telemetry.sending[i]]
    /\ UNCHANGED <<executorVars, lastResult, toolkit>>

SendRejects(i) ==
    /\ i \in 1..Len(telemetry.sending)
    /\ telemetry' = sendRejected(telemetry, i)
    /\ last' = [op |-> "send rejected", events |-> telemetry.sending[i]]
    /\ UNCHANGED <<executorVars, lastResult, toolkit>>

----------------------------------------------------------------------------
(* extract, validate, summarize, decide (src/src/index.js) *)

\* The toolkit is constructed without a token and with the default
\* configuration: this.telemetry is null, validateOutputs, logging, audit
\* and debug are off.  The arguments of an operation reach its outcome only
\* through the prompt, that is through the response the engine gives.

JsNull == [type |-> "object", v |-> <<"null">>]
JsNumber(digit) == [type |-> "number", v |-> <<digit>>]
JsEmptyString == JsString(<< >>)
JsEmptyArray == [type |-> "object", v |-> <<"[", "]">>]
JsEmptyObject == [type |-> "object", v |-> <<"{", "}">>]

\* !!value
Truthy(value) ==
    CASE value.type = "undefined" -> FALSE
      [] value.type = "string" -> value.v # << >>
      [] value.type = "number" -> value.v # <<"0">>
      [] value.type = "boolean" -> value.v = <<"true">>
      [] OTHER -> value # JsNull

\* value || default
JsOr(value, default) == IF Truthy(value) THEN value ELSE default

\* the JSON text of member `key` among the members that start at index i of
\* an object's canonical text, << >> if there is none
RECURSIVE MemberFrom(_, _, _)
MemberFrom(j, i, key) ==
    LET k == StringEnd(j, i)
        e == ValueEnd(j, k + 1)
    IN IF k = 0 THEN << >>
       ELSE IF SubSeq(j, i + 1, k - 2) = <<key>> THEN SubSeq(j, k + 1, e - 1)
       ELSE IF At(j, e) = "," THEN MemberFrom(j, e + 1, key)
       ELSE << >>

\* value.key, for a value that is not null: undefined unless the value is a
\* mapping with that key
Get(value, key) ==
    IF value.type = "object" /\ At(value.v, 1) = "{"
       /\ MemberFrom(value.v, 2, key) # << >>
    THEN FromJson(MemberFrom(value.v, 2, key))
    ELSE JsUndefined

\* makeAIRequest threw instead of returning the engine's response
RequestFailed == [type |-> "thrown", v |-> <<"AI engine openai not configured">>]

\* reading a property of null throws this
NullRead == JsString(<<"Cannot read properties of null">>)

\* the keys of the schema given to extract
SchemaKeys == {"x"}

\* calculateConfidence(extracted, schema): the share of the schema's keys
\* that extracted has a value for
calculateConfidence(extracted) ==
    IF ~Truthy(extracted) \/ Truthy(Get(extracted, "error")) THEN JsNumber("0")
    ELSE LET filled == {k \in SchemaKeys :
                          Get(extracted, k) \notin {JsNull, JsUndefined, JsEmptyString}}
         IN IF filled = {} THEN JsNumber("0")
            ELSE IF filled = SchemaKeys THEN JsNumber("1")
            ELSE JsNumber("fraction")

\* a plausible slip: the result of a failed request is stored for chaining
\* like any other result
extractStoresFailure(response, parsed, lastRes) ==
    IF response = RequestFailed
    THEN LET failed == [success |-> FALSE, data |-> JsNull,
                        confidence |-> JsNumber("0"), error |-> JsString(response.v)]
         IN [returned |-> failed, lastResult |-> failed]
    ELSE IF parsed = JsNull
    THEN [returned |-> [success |-> FALSE, data |-> JsNull,
                        confidence |-> JsNumber("0"), error |-> NullRead],
          lastResult |-> lastRes]
    ELSE LET result == [success |-> ~Truthy(Get(parsed, "error")),
                        data |-> IF Truthy(Get(parsed, "error")) THEN JsNull ELSE parsed,
                        confidence |-> calculateConfidence(parsed),
                        validation |-> JsNull]
         IN [returned |-> result, lastResult |-> result]

\* Each operation answers what it returns and what it leaves in
\* this.lastResult.  `response` is what makeAIRequest gave, `parsed` what
\* parseJSON made of it.
extract(response, parsed, lastRes) ==
    IF response = RequestFailed
    THEN [returned |-> [success |-> FALSE, data |-> JsNull,
                        confidence |-> JsNumber("0"), error |-> JsString(response.v)],
          lastResult |-> lastRes]
    ELSE IF parsed = JsNull
    THEN [returned |-> [success |-> FALSE, data |-> JsNull,
                        confidence |-> JsNumber("0"), error |-> NullRead],
          lastResult |-> lastRes]
    ELSE LET result == [success |-> ~Truthy(Get(parsed, "error")),
                        data |-> IF Truthy(Get(parsed, "error")) THEN JsNull ELSE parsed,
                        confidence |-> calculateConfidence(parsed),
                        validation |-> JsNull]
         IN [returned |-> result, lastResult |-> result]

validate(response, parsed, lastRes) ==
    IF response = RequestFailed
    THEN [returned |-> [success |-> FALSE, score |-> JsNumber("0"),
                        reasoning |-> JsString(response.v),
                        confidence |-> JsNumber("0")],
          lastResult |-> lastRes]
    ELSE IF parsed = JsNull
    THEN [returned |-> [success |-> FALSE, score |-> JsNumber("0"),
                        reasoning |-> NullRead, confidence |-> JsNumber("0")],
          lastResult |-> lastRes]
    ELSE LET result == [success |-> ~Truthy(Get(parsed, "error")),
                        score |-> JsOr(Get(parsed, "score"), JsNumber("0")),
                        reasoning |-> JsOr(Get(parsed, "reasoning"), JsEmptyString),
                        confidence |-> JsOr(Get(parsed, "confidence"), JsNumber("0")),
                        recommendation |-> Get(parsed, "recommendation")]
         IN [returned |-> result, lastResult |-> result]

summarize(response, parsed, lastRes) ==
    IF response = RequestFailed
    THEN [returned |-> [success |-> FALSE, summary |-> JsEmptyString,
                        keyPoints |-> JsEmptyArray, error |-> JsString(response.v)],
          lastResult |-> lastRes]
    ELSE IF parsed = JsNull
    THEN [returned |-> [success |-> FALSE, summary |-> JsEmptyString,
                        keyPoints |-> JsEmptyArray, error |-> NullRead],
          lastResult |-> lastRes]
    ELSE LET result == [success |-> ~Truthy(Get(parsed, "error")),
                        summary |-> JsOr(Get(parsed, "summary"), JsEmptyString),
                        keyPoints |-> JsOr(Get(parsed, "keyPoints"), JsEmptyArray),
                        confidence |-> JsOr(Get(parsed, "confidence"), JsNumber("0"))]
         IN [returned |-> result, lastResult |-> result]

decide(response, parsed, lastRes) ==
    IF response = RequestFailed
    THEN [returned |-> [success |-> FALSE, action |-> JsNull,
                        reasoning |-> JsString(response.v),
                        confidence |-> JsNumber("0")],
          lastResult |-> lastRes]
    ELSE IF parsed = JsNull
    THEN [returned |-> [success |-> FALSE, action |-> JsNull,
                        reasoning |-> NullRead, confidence |-> JsNumber("0")],
          lastResult |-> lastRes]
    ELSE LET result == [success |-> ~Truthy(Get(parsed, "error")),
                        action |-> JsOr(Get(parsed, "action"), JsNull),
                        reasoning |-> JsOr(Get(parsed, "reasoning"), JsEmptyString),
                        confidence |-> JsOr(Get(parsed, "confidence"), JsNumber("0")),
                        parameters |-> JsOr(Get(parsed, "parameters"), JsEmptyObject)]
         IN [returned |-> result, lastResult |-> result]

Member(key, json) == Str(key) \o <<":">> \o json
Object2(m1, m2) == <<"{">> \o m1 \o <<",">> \o m2 \o <<"}">>

\* what the engine may answer: JSON as asked for, bare or fenced, JSON with
\* an error member, JSON that is no mapping, and no JSON at all
EngineTexts ==
    { <<"{">> \o Member("x", <<"5">>) \o <<"}">>,
      <<Fence, "json", "\n", "{">> \o Member("x", Str("x")) \o <<"}", "\n", Fence>>,
      Object2(Member("score", <<"1">>), Member("reasoning", Str("x"))),
      Object2(Member("summary", Str("x")), Member("keyPoints", <<"[", "1", "]">>)),
      Object2(Member("action", Str("a")), Member("confidence", <<"1">>)),
      Object2(Member("error", Str("x")), Member("x", <<"5">>)),
      <<"{">> \o Member("error", <<Quote, Quote>>) \o <<"}">>,
      <<"{">> \o Member("error", Str("Failed to parse response")) \o <<"}">>,
      <<"[", "1", "]">>,
      <<"null">>,
      <<"I", " ", "cannot", " ", "do", " ", "that">>,
      <<"{">> \o Member("x", <<"5">>),
      << >> }

EngineResponses == {JsString(s) : s \in EngineTexts} \cup {JsNull, RequestFailed}

\* the response as parseJSON is given it and what parseJSON returns for it
ParsedResponse(response) ==
    IF response = RequestFailed THEN JsUndefined ELSE parseJSON(response).value

\* this.lastResult.data || this.lastResult
lastData(lastRes) ==
    IF "data" \in DOMAIN lastRes /\ Truthy(lastRes.data) THEN lastRes.data
    ELSE lastRes

\* `if (!content && this.lastResult) content = ...`: what the request is
\* built from (validate is called with a criteria string)
chained(given, lastRes) ==
    IF ~Truthy(given) /\ lastRes # JsNull THEN lastData(lastRes) ELSE given

\* the arguments: the subject, content or context given, or none
Given == JsString(<<"given">>)
Givens(op) ==
    CASE op = "extract" -> {Given}
      [] op = "decide" -> {JsNull, Given}
      [] OTHER -> {JsUndefined, Given}

\* how many events an operation tracks: ai_request once the engine has
\* answered, its own once its try block has run to the end, and then those
\* of log() and auditLog()
eventsTracked(tk, op, response, parsed) ==
    IF tk.telemetry = "null" \/ response = RequestFailed THEN 0
    ELSE IF parsed = JsNull THEN 1
    ELSE 2 + (IF ~Falsy(tk.logging) /\ ~Falsy(tk.isPremium) THEN 1 ELSE 0)
           + (IF op = "decide" /\ ~Falsy(tk.audit) /\ ~Falsy(tk.isPremium)
              THEN 1 ELSE 0)

RECURSIVE trackTimes(_, _)
trackTimes(client, n) == IF n = 0 THEN client ELSE trackTimes(track(client), n - 1)

\* the catch block of parseJSON writes the error and the raw response to
\* the console when this.debug is truthy
diagnosed(tk, response) ==
    response # RequestFailed /\ parseJSONTry(response).threw /\ ~Falsy(tk.debug)

\* an operation from its call to its return; r is what the operation
\* returns and leaves in this.lastResult
Operated(op, given, response, parsed, r) ==
    \E client \in {trackTimes(telemetry,
                               eventsTracked(toolkit, op, response, parsed))} :
      /\ client.tracked - QueuedAtStart(client) <= MaxEvents
      /\ Len(client.sending) <= MaxSends
      /\ telemetry' = client
      /\ last' = [op |-> op, given |-> given,
                  input |-> IF op = "extract" THEN given
                            ELSE chained(given, lastResult),
                  response |-> response, parsed |-> parsed,
                  result |-> r.returned,
                  diagnostics |-> diagnosed(toolkit, response)]
      /\ lastResult' = r.lastResult
      /\ UNCHANGED <<executorVars, toolkit>>

Extract(given, response) ==
    \E parsed \in {ParsedResponse(response)} :
      \E r \in {extract(response, parsed, lastResult)} :
        Operated("extract", given, response, parsed, r)

Validate(given, response) ==
    \E parsed \in {ParsedResponse(response)} :
      \E r \in {validate(response, parsed, lastResult)} :
        Operated("validate", given, response, parsed, r)

Summarize(given, response) ==
    \E parsed \in {ParsedResponse(response)} :
      \E r \in {summarize(response, parsed, lastResult)} :
        Operated("summarize", given, response, parsed, r)

Decide(given, response) ==
    \E parsed \in {ParsedResponse(response)} :
      \E r \in {decide(response, parsed, lastResult)} :
        Operated("decide", given, response, parsed, r)

\* the decisions execute is called with: none, and one naming an action
GivenDecision == [type |-> "object", v |-> <<"{">> \o Member("action", Str("a")) \o <<"}">>]
GivenDecisions == {JsUndefined, GivenDecision}

\* `if (!decision && this.lastResult && this.lastResult.action)
\*     decision = this.lastResult`
executeDecision(given, lastRes) ==
    IF ~Truthy(given) /\ lastRes # JsNull /\ "action" \in DOMAIN lastRes
       /\ Truthy(lastRes.action)
    THEN lastRes ELSE given

\* a value of the toolkit as the executor's model writes it
Token(value) ==
    CASE value.type = "undefined" -> Undefined
      [] value.type = "string" -> IF value.v = << >> THEN "" ELSE value.v[1]
      [] value = JsEmptyObject -> EmptyMapping
      [] OTHER -> "{param1:value1}"

\* the decision as the executor reads it: its action and parameters fields
ToDecision(decision) ==
    IF "type" \notin DOMAIN decision
    THEN [present |-> TRUE,
          action |-> IF "action" \in DOMAIN decision
                     THEN Token(decision.action) ELSE Undefined,
          parameters |-> IF "parameters" \in DOMAIN decision
                         THEN Token(decision.parameters) ELSE Undefined]
    ELSE IF ~Truthy(decision) THEN NoDecision
    ELSE [present |-> TRUE, action |-> Token(Get(decision, "action")),
          parameters |-> Token(Get(decision, "parameters"))]

\* execute(decision) of the toolkit
ToolkitExecute(given) ==
    IF toolkit.executor = "null"
    THEN /\ last' = [op |-> "toolkit.execute", given |-> given,
                     outcome |-> Rejected("Executor not configured")]
         /\ UNCHANGED <<executorVars, toolkitVars>>
    ELSE ExecuteStartUpTo(ToDecision(executeDecision(given, lastResult)),
                          MaxInFlight)

----------------------------------------------------------------------------
(* Specifications *)

RegistryNext ==
    \/ \E name \in Names, handler \in Handlers \cup {NotAFunction},
          metadata \in Metadatas : Register(name, handler, metadata)
    \/ \E name \in Names : Unregister(name)
    \/ Clear
    \/ List
    \/ \E m \in {"push", "shift", "reverse"} : MutateListed(m)

ExecuteNext ==
    \/ \E name \in Names, handler \in Handlers \cup {NotAFunction},
          metadata \in Metadatas : Register(name, handler, metadata)
    \/ \E name \in Names : Unregister(name)
    \/ Clear
    \/ \E decision \in Decisions : ExecuteStart(decision)
    \/ \E i \in 1..MaxInFlight, hres \in HandlerSettles : ExecuteSettle(i, hres)

\* the decisions made where execute calls run side by side
ConcurrentDecisions ==
    [present : {TRUE}, action : ConcurrentNames \cup {NeverRegistered},
     parameters : {Undefined}]

ConcurrentNext ==
    \/ \E name \in ConcurrentNames, handler \in Handlers :
          Register(name, handler, NoMetadata)
    \/ \E name \in ConcurrentNames : Unregister(name)
    \/ Clear
    \/ \E decision \in ConcurrentDecisions :
          ExecuteStartUpTo(decision, MaxConcurrent)
    \/ \E i \in 1..MaxConcurrent, hres \in HandlerSettles : ExecuteSettle(i, hres)

ToolkitNext ==
    \/ \E given \in Givens("extract"), response \in EngineResponses :
          Extract(given, response)
    \/ \E given \in Givens("validate"), response \in EngineResponses :
          Validate(given, response)
    \/ \E given \in Givens("summarize"), response \in EngineResponses :
          Summarize(given, response)
    \/ \E given \in Givens("decide"), response \in EngineResponses :
          Decide(given, response)
    \/ \E given \in GivenDecisions : ToolkitExecute(given)
    \/ \E i \in 1..MaxInFlight, hres \in HandlerSettles : ExecuteSettle(i, hres)

TelemetryNext ==
    \/ Track
    \/ \E by \in {"timer", "call"} : Flush(by)
    \/ Destroy
    \/ \E i \in 1..MaxSends, tier \in Tiers : SendResolves(i, tier)
    \/ \E i \in 1..MaxSends : SendRejects(i)

ParseNext ==
    \/ Parse
    \/ Reparse

DescribeNext ==
    \/ \E name \in Names, handler \in {"h1", NotAFunction},
          metadata \in DescribedMetadatas : Register(name, handler, metadata)
    \/ \E name \in Names : Unregister(name)
    \/ Clear
    \/ GetAvailableActions
    \/ \E name \in Names, field \in ObjectFields : MutateAliased(name, field)

\* the registry and the arrays list() hands out
Spec == Init /\ [][RegistryNext]_vars

\* the registry and the execute calls dispatched through it
SpecExecute == Init /\ [][ExecuteNext]_vars

\* the registry, the records getAvailableActions() hands out and the
\* metadata objects callers keep
SpecDescribe == Init /\ [][DescribeNext]_vars

\* a toolkit made with the default options, and one made with
\* { withExecutor: true } on whose executor an action has been registered
InitToolkit ==
    /\ listed = [items |-> << >>, sharedWithRegistry |-> FALSE, held |-> FALSE]
    /\ pending = << >>
    /\ last = NoCall
    /\ aliased = {}
    /\ \/ /\ Constructed(DefaultOptions)
          /\ registry = << >>
          /\ regRank = [n \in AllNames |-> 0]
       \/ /\ Constructed([DefaultOptions EXCEPT !.withExecutor = JsTrue])
          /\ registry = register(<< >>, "a", "h1", NoMetadata).registry
          /\ regRank = [n \in AllNames |-> IF n = "a" THEN 1 ELSE 0]

\* the operations of the toolkit on the engine's responses
SpecToolkit == InitToolkit /\ [][ToolkitNext]_vars

\* a telemetry client that is enabled, with nothing queued or one event short
\* of the threshold, and one that is disabled
InitTelemetry ==
    /\ registry = << >>
    /\ regRank = [n \in AllNames |-> 0]
    /\ listed = [items |-> << >>, sharedWithRegistry |-> FALSE, held |-> FALSE]
    /\ pending = << >>
    /\ last = NoCall
    /\ aliased = {}
    /\ lastResult = [type |-> "object", v |-> <<"null">>]
    /\ \E options \in {o \in ConstructorOptions :
                          o.token # Undefined /\ o.withExecutor = JsFalse
                          /\ o.logging = JsFalse /\ o.audit = JsFalse
                          /\ o.debug = JsFalse} :
          /\ toolkit = AIToolkit(options)
          /\ telemetry \in
                {TelemetryClient(options.token, options.telemetry),
                 [TelemetryClient(options.token, options.telemetry) EXCEPT
                    !.queue = IF @ = << >> /\ options.telemetry = JsTrue
                              THEN [e \in 1..(FlushThreshold - 1) |-> e] ELSE @,
                    !.tracked = IF options.telemetry = JsTrue
                                THEN FlushThreshold - 1 ELSE @]}

\* the telemetry client under track, flush, destroy and the ends of its sends
SpecTelemetry == InitTelemetry /\ [][TelemetryNext]_vars

\* what the engine answers to the instances constructed in every way: JSON
\* as asked for, a text that cannot be parsed, null, and no answer at all
InstanceResponses ==
    { JsString(Object2(Member("action", Str("a")), Member("confidence", <<"1">>))),
      JsString(<<"{">> \o Member("x", <<"5">>)),
      JsNull,
      RequestFailed }

\* an instance constructed with any options
InitInstance ==
    /\ registry = << >>
    /\ regRank = [n \in AllNames |-> 0]
    /\ listed = [items |-> << >>, sharedWithRegistry |-> FALSE, held |-> FALSE]
    /\ pending = << >>
    /\ last = NoCall
    /\ aliased = {}
    /\ \E options \in ConstructorOptions : Constructed(options)

InstanceNext ==
    \/ \E response \in InstanceResponses : Extract(Given, response)
    \/ \E response \in InstanceResponses : Validate(JsUndefined, response)
    \/ \E response \in InstanceResponses : Summarize(JsUndefined, response)
    \/ \E response \in InstanceResponses : Decide(JsNull, response)
    \/ Flush("timer")
    \/ \E i \in 1..MaxSends, tier \in Tiers : SendResolves(i, tier)
    \/ \E i \in 1..MaxSends : SendRejects(i)

\* the instances constructed with every combination of options, their
\* operations and the telemetry their operations give rise to
SpecInstance == InitInstance /\ [][InstanceNext]_vars

\* parseJSON on the responses
SpecParse == InitParse /\ [][ParseNext]_vars

\* the registry and execute calls suspended side by side
SpecConcurrent == Init /\ [][ConcurrentNext]_vars

----------------------------------------------------------------------------
(* The registry's contract, checked under Spec *)

\* what a caller can observe of the registry without executing anything
Observed(n) ==
    [has |-> has(n), size |-> size, list |-> list(registry).items,
     entry |-> MapGet(registry, n)]

\* C1: register fails with InvalidHandler when the handler is not callable
\* and with DuplicateAction when the name is already registered, and a
\* failing register call leaves has(), size(), the order of list() and the
\* descriptor stored under the name (its handler included) as they were
C1_FailedRegisterMutatesNothing ==
    [][\A name \in Names, handler \in Handlers \cup {NotAFunction},
          metadata \in Metadatas :
            Register(name, handler, metadata) =>
              /\ ~IsFunction(handler) => last'.threw = "InvalidHandler"
              /\ IsFunction(handler) /\ has(name) => last'.threw = "DuplicateAction"
              /\ last'.threw # "none" =>
                    \A n \in Names : Observed(n)' = Observed(n)]_vars

\* a duplicate registration has just failed on a registry holding the name
C1_Witness ==
    /\ last.op = "register"
    /\ last.threw = "DuplicateAction"
    /\ has(last.name)
    /\ size = 2

\* C10 (order): list() has one {name, description} pair per registered
\* action, ordered by the time of the action's current registration
ListInRegistrationOrder ==
    LET l == list(registry).items
        current == {n \in Names : regRank[n] > 0}
    IN /\ Len(l) = Cardinality(current)
       /\ {l[i].name : i \in 1..Len(l)} = current
       /\ \A i \in 1..Len(l) :
            /\ DOMAIN l[i] = {"name", "description"}
            /\ l[i].description = MapGet(registry, l[i].name).description
       /\ \A i, j \in 1..Len(l) :
            i < j => regRank[l[i].name] < regRank[l[j].name]

\* C10 (snapshot): adding to, removing from or reordering an array that
\* list() returned changes no later list(), has() or size()
ListedIsSnapshot ==
    \A m \in {"push", "shift", "reverse"} :
        MutateListed(m) => \A n \in Names : Observed(n)' = Observed(n)

\* C10: after any sequence of register, unregister and clear calls list()
\* is in registration order, and the array it returns is a fresh snapshot
C10_ListOrderedSnapshot ==
    [](ListInRegistrationOrder) /\ [][ListedIsSnapshot]_vars

\* an action registered, removed and registered again is listed after one
\* registered in between, and the caller has reordered the array it holds
C10_Witness ==
    /\ size = 2
    /\ list(registry).items[1].name = ""
    /\ list(registry).items[2].name = "a"
    /\ last.op = "mutateListed"
    /\ last.how = "reverse"
    /\ Len(listed.items) = 2
    /\ listed.items # list(registry).items

\* ghost: the abstract set of names the registry stands for
Current == {n \in Names : regRank[n] > 0}

RegistryIsCurrent ==
    /\ \A n \in Names : has(n) <=> n \in Current
    /\ size = Cardinality(Current)

RefinesSetOperations ==
    /\ \A name \in Names, handler \in Handlers, metadata \in Metadatas :
          Register(name, handler, metadata) =>
            /\ last'.threw = "none" <=> name \notin Current
            /\ name \notin Current => has(name)'
    /\ \A name \in Names :
          Unregister(name) =>
            /\ last'.returned = (name \in Current)
            /\ ~has(name)'
            /\ name \notin Current => \A n \in Names : Observed(n)' = Observed(n)
    /\ Clear => size' = 0 /\ \A n \in Names : ~has(n)'

\* C12: the registry refines a set of names: has(n) is true exactly for the
\* names registered and not removed since, size() is their count,
\* unregister(n) answers true exactly when n was present and otherwise
\* leaves the registry as it was, clear() leaves it empty, and a name that
\* is not in the set (removed ones included) can be registered
C12_RefinesSetOfNames == [](RegistryIsCurrent) /\ [][RefinesSetOperations]_vars

\* unregister has just removed one of two registered names
C12_Witness ==
    /\ last.op = "unregister"
    /\ last.returned = TRUE
    /\ ~has(last.name)
    /\ size = 1

----------------------------------------------------------------------------
(* The descriptors' contract, checked under SpecDescribe *)

\* C11: the registry alone owns what its descriptors hold: writing to the
\* parameters or examples value of a record getAvailableActions() returned,
\* or to a metadata object after register took it, does not change what a
\* later getAvailableActions() returns
C11_DescriptorsNotAliased ==
    [][\A name \in Names, field \in ObjectFields :
          MutateAliased(name, field) =>
            getAvailableActions(registry)'.items =
              getAvailableActions(registry).items]_vars

\* the descriptor a successful register is to store, where Counts says
\* which metadata values are taken instead of the default
ExpectedDescriptor(name, handler, metadata, Counts(_)) ==
    LET pick(f, d) == IF Counts(metadata[f]) THEN metadata[f] ELSE d IN
    [name |-> name,
     handler |-> handler,
     description |-> pick("description", "Execute " \o name),
     parameters |-> pick("parameters", EmptyMapping),
     examples |-> pick("examples", EmptySequence),
     requiresConfirmation |-> pick("requiresConfirmation", JsFalse),
     validate |-> pick("validate", DefaultValidate)]

RegisterStores(Counts(_)) ==
    \A name \in Names, handler \in Handlers, metadata \in DescribedMetadatas :
        Register(name, handler, metadata) /\ last'.threw = "none" =>
          LET e == ExpectedDescriptor(name, handler, metadata, Counts)
              items == getAvailableActions(registry)'.items
          IN /\ last'.returned = "this"
             /\ MapGet(registry, name)' = e
             /\ \E i \in 1..Len(items) :
                   items[i] = [action |-> name, description |-> e.description,
                               parameters |-> e.parameters, examples |-> e.examples]
             /\ ~Counts(metadata.requiresConfirmation) =>
                   e.requiresConfirmation = JsFalse
             /\ ~Counts(metadata.validate) =>
                   ValidatorResults(e.validate) = {[how |-> "returned", value |-> JsTrue]}

\* C13: a successful register returns the executor itself and stores a
\* descriptor with every field set: the metadata value where one was
\* supplied, otherwise the default ('Execute <name>', an empty mapping, an
\* empty sequence, false, a validator that always answers true); and
\* getAvailableActions() then has the record {action, description,
\* parameters, examples} of that descriptor
C13_RegisterStoresSupplied ==
    [][RegisterStores(LAMBDA v : v # Undefined)]_vars

\* C13 as the code has it: a supplied value counts only when it is truthy
C13_RegisterStoresTruthy ==
    [][RegisterStores(LAMBDA v : ~Falsy(v))]_vars

\* a registration without metadata has followed one with metadata
C13_Witness ==
    /\ last.op = "register"
    /\ last.returned = "this"
    /\ size = 2
    /\ registry[1].parameters = "{to:string}"
    /\ registry[2].description = "Execute " \o last.name
    /\ registry[2].validate = DefaultValidate

----------------------------------------------------------------------------
(* The contract of execute, checked under SpecExecute *)

\* an execute call has just run to its end
Executed == last.op = "execute"

\* the calls an execute made to the registered handler, in order
HandlerCalls(trace) == SelectSeq(trace, LAMBDA c : c.fn = "handler")

\* the calls an execute made to a validator or a handler
CallsMade(trace) == SelectSeq(trace, LAMBDA c : c.fn \in {"validate", "handler"})

Accepted(vres) == vres.how = "returned" /\ ~Falsy(vres.value)

HandlerFailed(hres) == hres.how \in {"threw", "rejected"}

\* C2: when the handler of a registered action whose validator accepted
\* throws or rejects, execute resolves to {success: false, action, error:
\* the failure's message}; it does not reject
C2_HandlerFailureIsolated ==
    (Executed /\ HandlerFailed(last.handlerResult)) =>
        last.outcome =
            Resolved([success |-> FALSE, action |-> last.decision.action,
                      error |-> MessageOf(last.handlerResult.value)])

\* C3: execute resolves to an envelope or rejects with one of
\* InvalidDecision, UnknownAction, InvalidParameters; nothing else escapes
C3_OnlyContractErrorsPropagate ==
    Executed =>
        \/ last.outcome.settled = "resolved"
        \/ last.outcome.error \in
              {"InvalidDecision", "UnknownAction", "InvalidParameters"}

\* C4: when the handler rejects with an error, execute rejects with it
C4_HandlerErrorRejectsExecute ==
    (Executed /\ last.handlerResult = [how |-> "rejected", value |-> ErrorFailed]) =>
        last.outcome = Rejected(ErrorFailed)

\* C5 as claimed: a decision whose action field names no registered action
\* fails with UnknownAction, and no validator or handler is called
C5_UnregisteredIsUnknownAction ==
    (Executed /\ last.decision.present /\ last.decision.action # Undefined
              /\ last.entry = NoEntry) =>
        /\ last.outcome = Rejected("UnknownAction")
        /\ CallsMade(last.trace) = << >>

\* C5 as amended: a decision whose action field is truthy (not the empty
\* string) and names no registered action fails with UnknownAction, and no
\* validator or handler is called
C5_TruthyUnregisteredIsUnknownAction ==
    (Executed /\ last.decision.present /\ ~Falsy(last.decision.action)
              /\ last.entry = NoEntry) =>
        /\ last.outcome = Rejected("UnknownAction")
        /\ CallsMade(last.trace) = << >>

\* an unknown action was refused while other actions were registered
C5_Witness ==
    /\ Executed
    /\ last.decision.action = NeverRegistered
    /\ last.outcome = Rejected("UnknownAction")
    /\ size > 0
    /\ pending # << >>

\* the validator is called first, with decision.parameters || {}, and the
\* handler after it
ValidatorBeforeHandler(call) ==
    \A k \in 1..Len(call.trace) :
        call.trace[k].fn = "handler" =>
            /\ call.trace[1] = Called("validate", call.entry.validate,
                                      OrElse(call.decision.parameters, EmptyMapping))
            /\ k > 1
            /\ Accepted(call.validatorResult)

\* C6: when the validator of the registered action returns a falsy value
\* for the parameters (the empty mapping if absent), execute fails with
\* InvalidParameters and the handler is not called; the validator is always
\* consulted before the handler
C6_RefusedParametersNeverReachHandler ==
    /\ (Executed /\ last.validatorResult.how = "returned"
                 /\ Falsy(last.validatorResult.value)) =>
          /\ last.outcome = Rejected("InvalidParameters")
          /\ HandlerCalls(last.trace) = << >>
          /\ last.trace = << Called("validate", last.entry.validate,
                                    OrElse(last.decision.parameters, EmptyMapping)) >>
    /\ Executed => ValidatorBeforeHandler(last)
    /\ \A i \in 1..Len(pending) : ValidatorBeforeHandler(pending[i])

\* a custom validator has just refused an absent parameters field
C6_Witness ==
    /\ Executed
    /\ last.validatorResult = [how |-> "returned", value |-> JsFalse]
    /\ last.decision.parameters = Undefined
    /\ last.trace[1].arg = EmptyMapping
    /\ last.outcome = Rejected("InvalidParameters")

\* C7: an absent decision and a decision without action field fail with
\* InvalidDecision before the registry is consulted: no validator or
\* handler is called, whatever the registry holds
C7_MissingActionIsInvalidDecision ==
    (Executed /\ (~last.decision.present \/ last.decision.action = Undefined)) =>
        /\ last.outcome = Rejected("InvalidDecision")
        /\ last.trace = << >>

\* a decision without action field was refused by a registry that holds
\* actions
C7_Witness ==
    /\ Executed
    /\ last.decision.present
    /\ last.decision.action = Undefined
    /\ last.outcome = Rejected("InvalidDecision")
    /\ size = 2

\* the registered handler was called exactly once, with the decision's
\* parameters, or with the empty mapping if there are none
HandlerCalledOnce(call) ==
    HandlerCalls(call.trace) =
        << Called("handler", call.entry.handler,
                  IF call.decision.parameters = Undefined
                  THEN EmptyMapping ELSE call.decision.parameters) >>

\* C8 as claimed: execute on a registered action calls its handler exactly
\* once, with the empty mapping when the decision has no parameters
C8_HandlerCalledOnceWhenRegistered ==
    (Executed /\ last.entry # NoEntry) => HandlerCalledOnce(last)

\* C8 as amended: for a registered action with a truthy (non-empty) name
\* whose validator accepts the parameters, execute calls the handler exactly
\* once, with the empty mapping when the decision has no parameters and
\* with the decision's mapping otherwise
C8_HandlerCalledOnceWhenAccepted ==
    /\ (Executed /\ last.entry # NoEntry /\ ~Falsy(last.decision.action)
                 /\ Accepted(last.validatorResult)) => HandlerCalledOnce(last)
    /\ \A i \in 1..Len(pending) : HandlerCalledOnce(pending[i])

\* a decision without parameters has run its handler with the empty mapping
C8_Witness ==
    /\ Executed
    /\ last.decision.parameters = Undefined
    /\ last.outcome.settled = "resolved"
    /\ HandlerCalls(last.trace) # << >>
    /\ HandlerCalls(last.trace)[1].arg = EmptyMapping

\* C9: when the action is registered, the validator accepts and the handler
\* completes with v, execute resolves to exactly {success: true, action,
\* result: v}; every envelope carries the decision's action name, and its
\* success is true exactly when the handler completed without failing
C9_SuccessEnvelope ==
    /\ (Executed /\ last.handlerResult.how = "returned") =>
          last.outcome =
              Resolved([success |-> TRUE, action |-> last.decision.action,
                        result |-> last.handlerResult.value])
    /\ (Executed /\ last.outcome.settled = "resolved") =>
          /\ last.outcome.value.action = last.decision.action
          /\ last.outcome.value.success = (last.handlerResult.how = "returned")
          /\ last.entry # NoEntry
          /\ Accepted(last.validatorResult)

\* a handler has completed with a value and execute resolved with it
C9_Witness ==
    /\ Executed
    /\ last.handlerResult = [how |-> "returned", value |-> "result1"]
    /\ last.outcome.settled = "resolved"
    /\ last.outcome.value.result = "result1"

----------------------------------------------------------------------------
(* Concurrent execute calls, checked under SpecConcurrent *)

\* an execute step leaves the registry's contents and order as they were
ExecuteOnlyReads ==
    (\/ \E decision \in ConcurrentDecisions :
           ExecuteStartUpTo(decision, MaxConcurrent)
     \/ \E i \in 1..MaxConcurrent, hres \in HandlerSettles : ExecuteSettle(i, hres))
    => registry' = registry

\* the envelope a call is to resolve to when its own handler ends as hres
OwnEnvelope(call, hres) ==
    IF hres.how = "returned"
    THEN [success |-> TRUE, action |-> call.decision.action, result |-> hres.value]
    ELSE [success |-> FALSE, action |-> call.decision.action,
          error |-> MessageOf(hres.value)]

\* a call that settles while another is suspended resolves to its own envelope
SettlesToOwnEnvelope ==
    \A i \in 1..MaxConcurrent, hres \in HandlerSettles :
        ExecuteSettle(i, hres) /\ Len(pending) >= 2 =>
          last'.outcome = Resolved(OwnEnvelope(pending[i], hres))

\* C14: execute only reads the registry, whatever its outcome, and of
\* several execute calls suspended at their handlers' awaits each resolves
\* to an envelope with its own decision's action name and its own
\* handler's result or error
C14_ConcurrentExecutesIndependent ==
    [][ExecuteOnlyReads /\ SettlesToOwnEnvelope]_vars

----------------------------------------------------------------------------
(* The contract of parseJSON, checked under SpecParse *)

JsonValue(s) == FromJson(Canonical(s, 1, FALSE))

\* the JSON values that stand somewhere in a response: the response itself
\* when it is an object, the values of the stretches of its cleaned text
\* that are JSON when it is a string
Recoverable(response) ==
    IF response.type = "object" THEN {response}
    ELSE IF response.type # "string" THEN {}
    ELSE LET c == Cleaned(response.v) IN
         {JsonValue(SubSeq(c, p[1], p[2])) :
            p \in {q \in (1..Len(c)) \X (1..Len(c)) :
                     q[1] <= q[2] /\ IsJson(SubSeq(c, q[1], q[2]))}}

\* C15: parseJSON never throws, whatever it is given (a string, undefined,
\* a number, a boolean), and what it returns when no JSON value is
\* recovered from the response is the failure sentinel, a mapping with the
\* one field error
C15_ParseNeverThrows ==
    last.op = "parseJSON" =>
      /\ ~last.returned.threw
      /\ \/ last.returned.value = FailureSentinel
         \/ last.returned.value \in Recoverable(last.response)

\* undefined has been parsed, and a text whose brace is never closed
C15_Witness ==
    /\ last.op = "parseJSON"
    /\ last.returned.value = FailureSentinel
    /\ \/ last.response = JsUndefined
       \/ last.response = JsString(<<"{", Quote, "x">>)

PassedThrough ==
    last.op = "parseJSON" /\ last.response.type \in {"object", "number", "boolean"}
      => last.returned = [threw |-> FALSE, value |-> last.response]

ReparsedTheSame ==
    Reparse /\ last.response.type \in {"object", "number", "boolean"}
      => last'.returned = last.returned

\* C16: a response that is already a structured value and no string (a
\* mapping, a sequence, a number, a boolean, null) is returned as it is, so
\* that parsing what parseJSON returned for it gives the same again
C16_StructuredPassThrough == [](PassedThrough) /\ [][ReparsedTheSame]_vars

\* parsing a text of a JSON object or array, bare or fenced and with
\* whitespace around it, gives the value
RoundTrips ==
    last.returned = [threw |-> FALSE, value |-> JsonValue(last.of)]

\* no fence marker is left when the text is looked at for JSON
FencesGoFirst ==
    last.response.type = "string" =>
      /\ ~HasFence(Cleaned(last.response.v))
      /\ last.returned = parseJSON(JsString(Cleaned(last.response.v)))

\* C17: for every JSON object or array v, parsing the text of v, bare or
\* inside a code fence (with or without the json tag) and with whitespace
\* around it, returns v; the fence markers are taken out wherever they are,
\* before anything else is done
C17_FencedRoundTrip ==
    last.op = "parseJSON" =>
      /\ last.form = "fenced" => RoundTrips
      /\ FencesGoFirst

\* C17 for the values whose text has no fence marker in it
C17_FenceFreeRoundTrip ==
    last.op = "parseJSON" =>
      /\ last.form = "fenced" /\ ~HasFence(last.of) => RoundTrips
      /\ FencesGoFirst

\* a nested object has come back from a fenced, tagged and spaced text
C17_Witness ==
    /\ last.op = "parseJSON"
    /\ last.form = "fenced"
    /\ last.response =
         JsString(<<Fence, "json", "\n">>
                  \o Spaced(<<"{">> \o Str("x") \o <<":", "[", "5", ",", "1", "]", "}">>,
                            1, FALSE)
                  \o <<"\n", Fence>>)
    /\ last.returned.value =
         JsonValue(<<"{">> \o Str("x") \o <<":", "[", "5", ",", "1", "]", "}">>)

\* the cleaned text is one JSON object or one JSON array
WholeObjectOrArray(c) == IsJson(c) /\ At(c, 1) \in {"{", "["}

\* the stretch from the first opening bracket, of the kind that comes
\* first, to where its depth is back at zero; empty if there is none
BalancedRegion(c) ==
    LET firstObject == indexOf(c, "{")
        firstArray == indexOf(c, "[")
        isArray == firstArray # 0 /\ (firstObject = 0 \/ firstArray < firstObject)
        start == IF isArray THEN firstArray ELSE firstObject
        end == IF start = 0 THEN 0
               ELSE IF isArray THEN depthZeroAt(c, start, 0, "[", "]")
               ELSE depthZeroAt(c, start, 0, "{", "}")
    IN IF end = 0 THEN << >> ELSE SubSeq(c, start, end)

\* C18: when the cleaned text is not one JSON object or array but has an
\* opening bracket in it, parseJSON returns the JSON value of the minimal
\* balanced stretch from the first opening bracket, also when the text
\* begins with an opening and ends with a closing bracket without being one
\* JSON value, as two objects with commentary between them do
C18_EmbeddedValueRecovered ==
    last.op = "parseJSON" /\ last.response.type = "string" =>
      LET c == Cleaned(last.response.v) IN
      ~WholeObjectOrArray(c) /\ IsJson(BalancedRegion(c)) =>
        last.returned = [threw |-> FALSE, value |-> JsonValue(BalancedRegion(c))]

----------------------------------------------------------------------------
(* The operations' use of the parser, checked under SpecToolkit *)

Operations == {"extract", "validate", "summarize", "decide"}

\* the engine answered and the answer was parsed without the catch block
ParsedGenuinely ==
    /\ last.op \in Operations
    /\ last.response # RequestFailed
    /\ ~parseJSONTry(last.response).threw

\* the engine answered and parseJSON returned the sentinel from its catch
ParseFailed ==
    /\ last.op \in Operations
    /\ last.response # RequestFailed
    /\ parseJSONTry(last.response).threw

\* what each operation returns when the response cannot be parsed
ParseFailureResult(op) ==
    CASE op = "extract" -> extract(JsEmptyString, FailureSentinel, lastResult).returned
      [] op = "validate" -> validate(JsEmptyString, FailureSentinel, lastResult).returned
      [] op = "summarize" -> summarize(JsEmptyString, FailureSentinel, lastResult).returned
      [] op = "decide" -> decide(JsEmptyString, FailureSentinel, lastResult).returned

\* C19: the failure sentinel can be told from every genuine parse result: no
\* response that is parsed successfully is treated by extract, validate,
\* summarize or decide as a parse failure, and a well-formed response object
\* with a non-empty error field of its own is reported with success true
C19_SentinelDistinguishable ==
    ParsedGenuinely =>
      /\ last.result # ParseFailureResult(last.op)
      /\ Truthy(Get(last.parsed, "error")) => last.result.success = TRUE

\* a message that says what went wrong is in the result
HasIndication(result) ==
    \E f \in {"error", "reasoning"} \cap DOMAIN result : Truthy(result[f])

\* C20: when the response of extract, validate, summarize or decide cannot
\* be parsed, the operation's result has success false and carries an
\* indication of the parse failure, and nothing of the sentinel is in the
\* result as data (the data of extract is null)
C20_ParseFailureReported ==
    ParseFailed =>
      /\ last.result.success = FALSE
      /\ HasIndication(last.result)
      /\ last.op = "extract" => last.result.data = JsNull
      /\ \A f \in DOMAIN last.result \ {"success", "error", "reasoning"} :
            /\ last.result[f] # FailureSentinel
            /\ last.result[f] # Get(FailureSentinel, "error")

----------------------------------------------------------------------------
(* Failed requests, checked under SpecToolkit *)

\* what the claim says an operation resolves to when makeAIRequest failed
RequestFailureResult(op, result) ==
    CASE op = "extract" ->
           result = [success |-> FALSE, data |-> JsNull,
                     confidence |-> JsNumber("0"),
                     error |-> JsString(RequestFailed.v)]
      [] op = "validate" -> result.success = FALSE /\ result.score = JsNumber("0")
      [] OTHER -> result.success = FALSE

\* C21: when makeAIRequest fails with error E, extract resolves to
\* {success: false, data: null, confidence: 0, error: E.message}, validate
\* resolves with success false and score 0, summarize and decide resolve with
\* success false, and this.lastResult is what it was before the call
C21_RequestFailureResolves ==
    [][last'.op \in Operations /\ last'.response = RequestFailed =>
         /\ RequestFailureResult(last'.op, last'.result)
         /\ lastResult' = lastResult]_vars

\* extract has failed on its request after an operation that succeeded
C21_Witness ==
    /\ last.op = "extract"
    /\ last.response = RequestFailed
    /\ lastResult # JsNull
    /\ lastResult.success

----------------------------------------------------------------------------
(* Chaining, checked under SpecToolkit *)

ChainingOperations == {"validate", "summarize", "decide"}

\* the step is a call of one of the four operations
OperationStep == last'.op \in Operations /\ pending' = pending

\* the decision the executor is given in a step of the toolkit's execute
DecisionPassed ==
    IF Len(pending') > Len(pending) THEN pending'[Len(pending')].decision
    ELSE last'.decision

\* C22: validate without a subject, summarize without content and decide
\* without a context build their request from the result of the operation
\* called immediately before them on the instance (from its data where it
\* has some), and execute without a decision passes that result to the
\* executor, whether the operation before succeeded or failed
C22_ChainsOnPreviousResult ==
    [][/\ (/\ OperationStep
            /\ last'.op \in ChainingOperations
            /\ ~Truthy(last'.given)
            /\ last.op \in Operations)
           => last'.input = lastData(last.result)
       /\ (/\ ToolkitExecute(JsUndefined)
            /\ toolkit.executor # "null"
            /\ last.op \in Operations)
           => DecisionPassed = ToDecision(last.result)]_vars

\* C23: what a call of extract, validate, summarize, decide or execute on
\* the shared instance works on is determined by the call's own arguments:
\* it is the argument given, whatever calls were made before
C23_ModuleFunctionsStateless ==
    [][/\ OperationStep => last'.input = last'.given
       /\ \A given \in GivenDecisions :
             ToolkitExecute(given) /\ toolkit.executor # "null"
               => DecisionPassed = ToDecision(given)]_vars

\* how many times event e occurs in the sequence of events s
RECURSIVE occurrences(_, _)
occurrences(s, e) ==
    IF s = << >> THEN 0
    ELSE (IF s[1] = e THEN 1 ELSE 0) + occurrences(Tail(s), e)

\* how many times event e occurs in the batches of the sequence of batches ss
RECURSIVE occurrencesIn(_, _)
occurrencesIn(ss, e) ==
    IF ss = << >> THEN 0
    ELSE occurrences(ss[1], e) + occurrencesIn(Tail(ss), e)

\* C24: a flush neither loses nor duplicates events: every event that was
\* tracked is exactly once in the queue, in the batch of a send that has not
\* ended yet, or in the batch of one send that succeeded; a send that
\* succeeded leaves none of its events in the queue and a send that failed
\* leaves all of them there
C24_FlushKeepsEvents ==
    /\ \A e \in 1..telemetry.tracked :
          occurrences(telemetry.queue, e)
            + occurrencesIn(telemetry.sending, e)
            + occurrencesIn(telemetry.delivered, e) = 1
    /\ last.op = "send resolved" =>
          \A k \in 1..Len(last.events) :
             /\ occurrences(telemetry.queue, last.events[k]) = 0
             /\ occurrencesIn(telemetry.delivered, last.events[k]) = 1
    /\ last.op = "send rejected" =>
          \A k \in 1..Len(last.events) :
             /\ occurrences(telemetry.queue, last.events[k]) = 1
             /\ occurrencesIn(telemetry.delivered, last.events[k]) = 0

\* a send failed after another one had succeeded, and its events are back
\* in the queue beside others
C24_Witness ==
    /\ last.op = "send rejected"
    /\ last.events # << >>
    /\ telemetry.delivered # << >>
    /\ telemetry.sending = << >>
    /\ Len(telemetry.queue) >= 2

\* C29: the queue holds its events in the order they were tracked, no event
\* twice, after every interleaving of track, flushes and ends of sends,
\* overlapping sends that fail included
C29_QueueInTrackingOrder ==
    \A i \in 1..Len(telemetry.queue) : \A j \in 1..Len(telemetry.queue) :
       i < j => telemetry.queue[i] < telemetry.queue[j]

----------------------------------------------------------------------------
(* The bracket scan of parseJSON, checked under SpecParse *)

\* the kind of bracket the text is scanned for: the array's when "[" occurs
\* and no "{" occurs before it, else the object's
ChosenOpen(c) ==
    IF indexOf(c, "[") # 0 /\ (indexOf(c, "{") = 0 \/ indexOf(c, "[") < indexOf(c, "{"))
    THEN "[" ELSE "{"

\* what is returned for a text handed to JSON.parse inside the try block
Caught(parsed) ==
    IF parsed.threw THEN [threw |-> FALSE, value |-> FailureSentinel] ELSE parsed

\* C25: when the cleaned text is not one JSON object or array and has a
\* balanced stretch from its first opening bracket, of the kind that comes
\* first and counting brackets of that kind only, what parseJSON returns is
\* what parsing that stretch gives (its value, or the failure sentinel when
\* it is no JSON), whatever follows the stretch
C25_BracketPriority ==
    last.op = "parseJSON" /\ last.response.type = "string" =>
      LET c == Cleaned(last.response.v) IN
      ~WholeObjectOrArray(c) /\ BalancedRegion(c) # << >> =>
        /\ BalancedRegion(c)[1] = ChosenOpen(c)
        /\ last.returned = Caught(JSONparse(BalancedRegion(c)))

\* the scan from the first opening bracket, of the kind that comes first,
\* reaches the end of the text without its depth being back at zero
ScanRunsOffTheEnd(c) ==
    /\ indexOf(c, "{") # 0 \/ indexOf(c, "[") # 0
    /\ depthZeroAt(c, indexOf(c, ChosenOpen(c)), 0, ChosenOpen(c),
                   IF ChosenOpen(c) = "[" THEN "]" ELSE "}") = 0

\* C26 as stated: when the scan reaches the end of the cleaned text without
\* its depth being back at zero, parseJSON returns the failure sentinel and
\* does not throw
C26_UnbalancedYieldsSentinel ==
    last.op = "parseJSON" /\ last.response.type = "string"
      /\ ScanRunsOffTheEnd(Cleaned(last.response.v)) =>
        last.returned = [threw |-> FALSE, value |-> FailureSentinel]

\* C26: when the scan reaches the end of the cleaned text without its depth
\* being back at zero, parseJSON parses the entire cleaned text: it returns
\* that text's value when the text is JSON (a JSON string with a bracket in
\* it is) and the failure sentinel when it is not, and it does not throw
C26_UnbalancedFallsThrough ==
    last.op = "parseJSON" /\ last.response.type = "string"
      /\ ScanRunsOffTheEnd(Cleaned(last.response.v)) =>
        LET c == Cleaned(last.response.v) IN
        /\ ~last.returned.threw
        /\ IsJson(c) => last.returned.value = FromJson(Canonical(c, 1, FALSE))
        /\ ~IsJson(c) => last.returned.value = FailureSentinel

\* the scan ran off the end of a JSON string with a brace in it, and the
\* string was returned
C26_Witness ==
    /\ last.op = "parseJSON"
    /\ last.response = JsString(<<Quote, "{", Quote>>)
    /\ ScanRunsOffTheEnd(Cleaned(last.response.v))
    /\ last.returned = [threw |-> FALSE, value |-> JsString(<<"{">>)]

----------------------------------------------------------------------------
(* requiresConfirmation, checked under SpecExecute *)

\* the same descriptor with the other value of requiresConfirmation
FlagFlipped(entry) ==
    [entry EXCEPT !.requiresConfirmation = IF Falsy(@) THEN JsTrue ELSE JsFalse]

\* the calls of a trace other than the warning
NotWarnings(trace) == SelectSeq(trace, LAMBDA c : c.fn # "console.warn")

Warnings(trace) == SelectSeq(trace, LAMBDA c : c.fn = "console.warn")

ContractErrors == {"InvalidDecision", "UnknownAction", "InvalidParameters"}

\* C27: requiresConfirmation never gates execution: an execute of an action
\* registered with the other value of the flag throws or reaches the handler
\* in the same way, calls the validator and the handler with the same
\* arguments and ends in the same outcome; the warning is emitted exactly
\* when the flag is truthy and the validator accepted, between the
\* validator's call and the handler's, and never in an execute that fails
\* with InvalidDecision, UnknownAction or InvalidParameters
C27_ConfirmationNeverGates ==
    last.op = "execute" =>
      /\ last.entry # NoEntry /\ ~decisionInvalid(last.decision) =>
           LET flipped == executeUntilAwait(<<FlagFlipped(last.entry)>>,
                                            last.decision, last.validatorResult)
           IN /\ NotWarnings(flipped.trace) = NotWarnings(last.trace)
              /\ (flipped.at = "threw") = (last.handlerResult = NotCalled)
              /\ last.outcome =
                   IF flipped.at = "threw" THEN Rejected(flipped.error)
                   ELSE executeAfterAwait(last.decision, last.handlerResult)
              /\ Warnings(last.trace) # << >> <=>
                   /\ ~Falsy(last.entry.requiresConfirmation)
                   /\ last.validatorResult.how = "returned"
                   /\ ~Falsy(last.validatorResult.value)
      /\ Warnings(last.trace) # << >> =>
           /\ Len(last.trace) = 3
           /\ last.trace[1].fn = "validate"
           /\ last.trace[2] = Called("console.warn", "console", last.decision.action)
           /\ last.trace[3].fn = "handler"
           /\ last.handlerResult # NotCalled
      /\ last.outcome.settled = "rejected" /\ last.outcome.error \in ContractErrors =>
           Warnings(last.trace) = << >>

\* an action that requires confirmation was executed: the warning was
\* emitted and the handler's result came back in the envelope
C27_Witness ==
    /\ last.op = "execute"
    /\ last.entry.requiresConfirmation = JsTrue
    /\ Warnings(last.trace) # << >>
    /\ last.outcome = Resolved([success |-> TRUE, action |-> last.decision.action,
                                result |-> "result1"])

----------------------------------------------------------------------------
(* The descriptor of a suspended execute, checked under SpecConcurrent *)

\* the action of the suspended call was unregistered, cleared away or
\* registered anew with another handler since the call looked it up
RegistryMovedOn(call) ==
    MapGet(registry, call.decision.action).handler # call.entry.handler

\* the handlers called by an execute that made the calls of trace
HandlersCalled(trace) ==
    {trace[k].callee : k \in {j \in 1..Len(trace) : trace[j].fn = "handler"}}

\* C28: execute binds its descriptor once, at lookup: when the action was
\* unregistered, cleared or registered anew with a different handler while
\* the handler's call was pending, the suspended execute still resolves to
\* the envelope built from the outcome of the handler it looked up, and it
\* calls no other handler
C28_DescriptorBoundAtLookup ==
    [][\A i \in 1..MaxConcurrent, hres \in HandlerSettles :
         ExecuteSettle(i, hres) /\ RegistryMovedOn(pending[i]) =>
           /\ last'.outcome = Resolved(OwnEnvelope(pending[i], hres))
           /\ HandlersCalled(last'.trace) = {pending[i].entry.handler}]_vars

----------------------------------------------------------------------------
(* The premium flags of an instance, checked under SpecInstance *)

====
